---------------------------- MODULE Spec2Model ----------------------------
(***************************************************************************)
(* Model of deploify (src/src/index.js): a Bitbucket pull-request webhook  *)
(* that creates, redeploys and deletes Heroku staging apps.                *)
(*                                                                         *)
(* Each webhook delivery is a chain of promise callbacks.  A delivery      *)
(* suspends only at a network call, so one action of the model is one      *)
(* provider call together with the continuation that runs when it returns  *)
(* (up to the next provider call or the response).  Deliveries interleave  *)
(* at these boundaries; the hosting provider's app set is the only state   *)
(* they share.                                                             *)
(***************************************************************************)
EXTENDS Naturals, Sequences, FiniteSets, TLC

VARIABLES
  probe,    \* input and result of a branch-policy function applied on its own
  apps,     \* hosting provider: app name -> number of apps with that name
  openPr,   \* source-control provider: tracked branch -> id of the first OPEN
            \* pull request whose source is that branch, 0 when there is none
  pc,       \* delivery -> position in the handler
  ev,       \* delivery -> req.body.pullrequest of the delivery
  loc,      \* delivery -> locals of webhook / create_or_update_app
  calls,    \* delivery -> provider calls issued so far, in order
  res       \* delivery -> statuses sent with res.sendStatus, in order

vars == <<probe, apps, openPr, pc, ev, loc, calls, res>>

----------------------------------------------------------------------------
(* Bounds *)

NumDeliveries == 2
MaxId == 2

Deliveries == 1..NumDeliveries
Ids == 1..MaxId

----------------------------------------------------------------------------
(* Configuration (README example) *)

\* config.domain_prefix
domain_prefix == <<"p", "-">>

\* Branch names, as character sequences.
QaBranch == <<"q", "a", "-", "x">>
DevBranch == <<"d", "e", "v">>
Branches == {QaBranch, DevBranch}

\* new RegExp(config.branch_regex).test(branch) with branch_regex = /^qa-(.*)/ :
\* the name starts with "qa-".  A fresh RegExp object is built for every test,
\* so the result does not depend on earlier tests.
BranchRegexTest(branch) ==
  Len(branch) >= 3 /\ SubSeq(branch, 1, 3) = <<"q", "a", "-">>

TrackedBranches == {b \in Branches : BranchRegexTest(b)}

----------------------------------------------------------------------------
(* Values *)

PrStates == {"OPEN", "MERGED", "DECLINED", "SUPERSEDED"}

\* req.body.pullrequest when it is null or absent
NullPullRequest ==
  [isNull |-> TRUE, state |-> "", source |-> <<>>, destination |-> <<>>, id |-> 0]

PullRequests ==
  [isNull : {FALSE}, state : PrStates, source : Branches,
   destination : Branches, id : Ids]

\* Decimal digits of a pull request id, as `domain_prefix + pullrequest_id`
\* converts the number to a string.
DigitChar(k) == <<"0", "1", "2", "3", "4", "5", "6", "7", "8", "9">>[k + 1]

RECURSIVE IdToString(_)
IdToString(n) ==
  IF n < 10 THEN <<DigitChar(n)>>
  ELSE IdToString(n \div 10) \o <<DigitChar(n % 10)>>

\* app_name = domain_prefix + pullrequest_id
AppName(id) == domain_prefix \o IdToString(id)

AppNames == {AppName(i) : i \in Ids}

\* One provider call of a delivery.
Call(op, app, branch, pr, ok) ==
  [op |-> op, app |-> app, branch |-> branch, pr |-> pr, ok |-> ok]

\* The locals of a delivery, and `after`: the deliveries that had already been
\* answered when this one was received (history, read by no action).
NoLocals ==
  [app_name |-> <<>>, pullrequest_id |-> 0, deployable_branch |-> <<>>,
   match |-> FALSE, app_url |-> <<>>, after |-> {}]

\* No branch-policy function applied on its own (the webhook is running).
NoProbe ==
  [fn |-> "none", pr |-> NullPullRequest, source |-> <<>>,
   destination |-> <<>>, result |-> FALSE]

----------------------------------------------------------------------------
(* Branch policy *)

\* is_mergeable_on_qa_branch with the negation on the wrong operand
is_mergeable_on_qa_branch_Swapped(source, destination) ==
  BranchRegexTest(source) /\ ~BranchRegexTest(destination)

\* is_mergeable_on_qa_branch (index.js 130-132)
is_mergeable_on_qa_branch(source, destination) ==
  ~BranchRegexTest(source) /\ BranchRegexTest(destination)

\* is_creatable_or_updatable without the merge-target test on MERGED
is_creatable_or_updatable_AnyMerged(pullrequest, source, destination) ==
  /\ ~pullrequest.isNull
  /\ pullrequest.state \in {"OPEN", "MERGED"}

\* is_creatable_or_updatable (index.js 143-145); the result is its truthiness:
\* `pullrequest && (...)` is null for a null pull request.
is_creatable_or_updatable(pullrequest, source, destination) ==
  /\ ~pullrequest.isNull
  /\ \/ pullrequest.state = "OPEN"
     \/ /\ pullrequest.state = "MERGED"
        /\ is_mergeable_on_qa_branch(source, destination)

\* The guard of line 255 left out
IsOpenUntracked_Never(pullrequest, branch_name) == FALSE

\* The guard of line 255 testing the state only after a wrong branch
IsOpenUntracked_Destination(pullrequest, branch_name) ==
  ~BranchRegexTest(pullrequest.destination) /\ pullrequest.state = "OPEN"

\* The guard of line 255: an OPEN pull request from an untracked branch.
IsOpenUntracked(pullrequest, branch_name) ==
  ~BranchRegexTest(branch_name) /\ pullrequest.state = "OPEN"

----------------------------------------------------------------------------
(* Outcomes of the promise chains *)

\* create_or_update_app ends with .catch(err => console.error(...)) (231-233):
\* the promise it returns is fulfilled whether or not a step failed.
CreateOrUpdateSettles(failed) == "fulfilled"

\* .then(() => res.sendStatus(200)).catch(() => res.sendStatus(500))
\* (279-282 and 292-295)
StatusOfSettled(settled) == IF settled = "fulfilled" THEN 200 ELSE 500

\* The delete chain with its .catch answering like its .then
DeleteChainStatus_Always200(failed) == 200

\* The delete chain (302-321): .then(() => 200), .catch(() => 500)
DeleteChainStatus(failed) == IF failed THEN 500 ELSE 200

\* The search of 166 never matching: every delivery creates
StepAfterList_AlwaysCreate(match) == "h_create"

\* After heroku.get("/apps") (164-179): create if no app has the name.
StepAfterList(match) == IF ~match THEN "h_create" ELSE "h_build"

\* The comment of 208-229 never sent
StepAfterBuild_NoComment(app_url) == "respond"

\* After the build (202-206): the comment is skipped when no app_url is set.
StepAfterBuild(app_url) == IF app_url = <<>> THEN "respond" ELSE "comment"

\* The delete of 313 issued whatever the listing showed
StepAfterDeleteList_Always(match) == "d_delete"

\* The delete of 313 never issued
StepAfterDeleteList_Never(match) == "respond"

\* The test of 312 inverted
StepAfterDeleteList_Inverted(match) == IF ~match THEN "d_delete" ELSE "respond"

\* After the listing of the delete path (308-317).
StepAfterDeleteList(match) == IF match THEN "d_delete" ELSE "respond"

\* web_url of a created app
WebUrl(name) == <<"h", "t", "t", "p", "s", ":", "/", "/">> \o name

----------------------------------------------------------------------------
(* Helpers for the actions *)

Log(d, c) == calls' = [calls EXCEPT ![d] = Append(@, c)]

Goto(d, p) == pc' = [pc EXCEPT ![d] = p]

\* res.sendStatus(status): the delivery is answered and ends.
Respond(d, status) ==
  /\ res' = [res EXCEPT ![d] = Append(@, status)]
  /\ pc' = [pc EXCEPT ![d] = "done"]

\* A step of create_or_update_app failed: the chain skips to the .catch and
\* the webhook's continuation answers.
CreateOrUpdateEnds(d, failed) ==
  Respond(d, StatusOfSettled(CreateOrUpdateSettles(failed)))

Exists(name) == apps[name] > 0

----------------------------------------------------------------------------
(* The webhook: the synchronous part of the handler (242-327) *)

Webhook(d, pullrequest) ==
  /\ pc[d] = "idle"
  /\ \A e \in Deliveries : e < d => pc[e] # "idle"
  /\ ev' = [ev EXCEPT ![d] = pullrequest]
  /\ UNCHANGED <<probe, apps, openPr, calls>>
  /\ IF pullrequest.isNull
     THEN \* line 244 reads a property of null: the TypeError leaves the
          \* handler and the framework's error handler answers 500.
          /\ res' = [res EXCEPT ![d] = Append(@, 500)]
          /\ pc' = [pc EXCEPT ![d] = "threw"]
          /\ UNCHANGED loc
     ELSE LET branch_name == pullrequest.source
              destination_branch_name == pullrequest.destination
              l0 == [NoLocals EXCEPT
                       !.pullrequest_id = pullrequest.id,
                       !.app_name = AppName(pullrequest.id),
                       !.after = {e \in Deliveries : pc[e] = "done"}]
          IN
          IF is_creatable_or_updatable(pullrequest, branch_name,
                                       destination_branch_name)
          THEN IF IsOpenUntracked(pullrequest, branch_name)
               THEN /\ loc' = [loc EXCEPT ![d] = l0]
                    /\ Respond(d, 200)
               ELSE IF is_mergeable_on_qa_branch(branch_name,
                                                 destination_branch_name)
               THEN /\ loc' = [loc EXCEPT ![d] =
                                 [l0 EXCEPT !.deployable_branch =
                                               destination_branch_name]]
                    /\ Goto(d, "bb_token")
                    /\ UNCHANGED res
               ELSE /\ loc' = [loc EXCEPT ![d] =
                                 [l0 EXCEPT !.deployable_branch = branch_name]]
                    /\ Goto(d, "h_auth")
                    /\ UNCHANGED res
          ELSE IF ~pullrequest.isNull /\ pullrequest.state # "OPEN"
          THEN /\ loc' = [loc EXCEPT ![d] = l0]
               /\ Goto(d, "d_auth")
               /\ UNCHANGED res
          ELSE /\ loc' = [loc EXCEPT ![d] = l0]
               /\ Respond(d, 400)

----------------------------------------------------------------------------
(* The merge-target path: get_pull_request_id (93-122, called at 263) *)

\* The callback of getToken (50-56) on success evaluates
\* `oauth2.accessToken.create(result)`, but no `oauth2` is defined (the client
\* is `bitbucket_oauth2`, the module `Oauth2`): a ReferenceError is thrown
\* inside the library's callback, so resolve is never reached.
TokenCallback == "throws"

\* get_pull_request_id.  A failed token request rejects, and the webhook's
\* .catch (280-282) answers 500.  When the token arrives the callback throws:
\* the promise is neither resolved nor rejected, the pull-request search
\* (108-116) is never sent and the delivery is never answered.  Whether the
\* error also ends the process (and with it every delivery in flight) is up to
\* the OAuth library and the runtime: both are possible.  The search and the
\* continuation of 264-279 are written out for the callback that returns.
GetPullRequestId(d) ==
  /\ pc[d] = "bb_token"
  /\ UNCHANGED <<probe, apps, openPr, ev>>
  /\ \E ok \in BOOLEAN :
       LET token == Call("bitbucket_token", <<>>, <<>>, 0, ok) IN
       IF ~ok
       THEN /\ Log(d, token)
            /\ Respond(d, StatusOfSettled("rejected"))
            /\ UNCHANGED loc
       ELSE IF TokenCallback = "throws"
       THEN /\ Log(d, token)
            /\ UNCHANGED <<loc, res>>
            /\ \E uncaught \in BOOLEAN :
                 pc' = [e \in Deliveries |->
                          IF e = d THEN "hung"
                          ELSE IF uncaught /\ pc[e] \notin {"done", "threw", "hung"}
                               THEN "dead"
                               ELSE pc[e]]
       ELSE \E found \in BOOLEAN :
              LET result == openPr[ev[d].destination]
                  search == Call("search", <<>>, ev[d].destination, 0, found)
              IN
              /\ calls' = [calls EXCEPT ![d] = @ \o <<token, search>>]
              /\ IF ~found
                 THEN Respond(d, StatusOfSettled("rejected")) /\ UNCHANGED loc
                 ELSE IF result = 0
                 THEN Respond(d, StatusOfSettled("fulfilled")) /\ UNCHANGED loc
                 ELSE /\ loc' = [loc EXCEPT ![d].pullrequest_id = result,
                                            ![d].app_name = AppName(result)]
                      /\ Goto(d, "h_auth")
                      /\ UNCHANGED res

----------------------------------------------------------------------------
(* create_or_update_app (152-234), called at 285 *)

\* heroku_oauth (63-84) and `new Heroku({token: result.access_token.token})`
HerokuOauth(d) ==
  /\ pc[d] = "h_auth"
  /\ UNCHANGED <<probe, apps, openPr, ev, loc>>
  /\ \E ok \in BOOLEAN :
       /\ Log(d, Call("heroku_auth", <<>>, <<>>, 0, ok))
       /\ IF ok
          THEN Goto(d, "h_list") /\ UNCHANGED res
          ELSE CreateOrUpdateEnds(d, TRUE)

\* heroku.get("/apps") and the search for obj.app_name (162-179)
ListApps(d) ==
  /\ pc[d] = "h_list"
  /\ UNCHANGED <<probe, apps, openPr, ev>>
  /\ \E ok \in BOOLEAN :
       /\ Log(d, Call("list", <<>>, <<>>, 0, ok))
       /\ IF ok
          THEN LET match == Exists(loc[d].app_name) IN
               /\ loc' = [loc EXCEPT ![d].match = match]
               /\ Goto(d, StepAfterList(match))
               /\ UNCHANGED res
          ELSE /\ UNCHANGED loc
               /\ CreateOrUpdateEnds(d, TRUE)

\* CreateApp going straight to the build, without the config-var patch
CreateApp_NoPatch(d) ==
  /\ pc[d] = "h_create"
  /\ UNCHANGED <<probe, openPr, ev>>
  /\ \E ok \in BOOLEAN :
       /\ Log(d, Call("create", loc[d].app_name, <<>>, 0, ok))
       /\ IF ok
          THEN /\ apps' = [apps EXCEPT ![loc[d].app_name] = @ + 1]
               /\ loc' = [loc EXCEPT ![d].app_url = WebUrl(loc[d].app_name)]
               /\ Goto(d, "h_build")
               /\ UNCHANGED res
          ELSE /\ UNCHANGED <<apps, loc>>
               /\ CreateOrUpdateEnds(d, TRUE)

\* CreateApp holding back while an app of the name exists, as a handler that
\* serialized the deliveries of one app name would
CreateApp_Serialized(d) ==
  /\ pc[d] = "h_create"
  /\ ~Exists(loc[d].app_name)
  /\ UNCHANGED <<probe, openPr, ev>>
  /\ \E ok \in BOOLEAN :
       /\ Log(d, Call("create", loc[d].app_name, <<>>, 0, ok))
       /\ IF ok
          THEN /\ apps' = [apps EXCEPT ![loc[d].app_name] = @ + 1]
               /\ loc' = [loc EXCEPT ![d].app_url = WebUrl(loc[d].app_name)]
               /\ Goto(d, "h_patch")
               /\ UNCHANGED res
          ELSE /\ UNCHANGED <<apps, loc>>
               /\ CreateOrUpdateEnds(d, TRUE)

\* heroku.post("/apps", {name}) (170-174) and the continuation that keeps
\* app.web_url (183-184).  What the provider does with a name that is already
\* taken is not decided by this code: it may reject the call or accept it.
CreateApp(d) ==
  /\ pc[d] = "h_create"
  /\ UNCHANGED <<probe, openPr, ev>>
  /\ \E ok \in BOOLEAN :
       /\ Log(d, Call("create", loc[d].app_name, <<>>, 0, ok))
       /\ IF ok
          THEN /\ apps' = [apps EXCEPT ![loc[d].app_name] = @ + 1]
               /\ loc' = [loc EXCEPT ![d].app_url = WebUrl(loc[d].app_name)]
               /\ Goto(d, "h_patch")
               /\ UNCHANGED res
          ELSE /\ UNCHANGED <<apps, loc>>
               /\ CreateOrUpdateEnds(d, TRUE)

\* PatchConfigVars going on to the build when the patch failed
PatchConfigVars_Continues(d) ==
  /\ pc[d] = "h_patch"
  /\ UNCHANGED <<probe, apps, openPr, ev, loc>>
  /\ \E ok \in {b \in BOOLEAN : b => Exists(loc[d].app_name)} :
       /\ Log(d, Call("patch", loc[d].app_name, <<>>, 0, ok))
       /\ Goto(d, "h_build") /\ UNCHANGED res

\* heroku.patch(`/apps/${app_name}/config-vars`, config.env_vars) (186-188)
PatchConfigVars(d) ==
  /\ pc[d] = "h_patch"
  /\ UNCHANGED <<probe, apps, openPr, ev, loc>>
  /\ \E ok \in {b \in BOOLEAN : b => Exists(loc[d].app_name)} :
       /\ Log(d, Call("patch", loc[d].app_name, <<>>, 0, ok))
       /\ IF ok
          THEN Goto(d, "h_build") /\ UNCHANGED res
          ELSE CreateOrUpdateEnds(d, TRUE)

\* heroku.post(`/apps/${app_name}/builds`, {source_blob: {url: tarball}})
\* (193-201); the tarball URL names obj.deployable_branch (153).
StartBuild(d) ==
  /\ pc[d] = "h_build"
  /\ UNCHANGED <<probe, apps, openPr, ev, loc>>
  /\ \E ok \in {b \in BOOLEAN : b => Exists(loc[d].app_name)} :
       /\ Log(d, Call("build", loc[d].app_name, loc[d].deployable_branch, 0, ok))
       /\ IF ok
          THEN IF StepAfterBuild(loc[d].app_url) = "comment"
               THEN Goto(d, "comment") /\ UNCHANGED res
               ELSE CreateOrUpdateEnds(d, FALSE)
          ELSE CreateOrUpdateEnds(d, TRUE)

\* The comment on pull request obj.pullrequest_id (208-229)
PostComment(d) ==
  /\ pc[d] = "comment"
  /\ UNCHANGED <<probe, apps, openPr, ev, loc>>
  /\ \E ok \in BOOLEAN :
       /\ Log(d, Call("comment", <<>>, <<>>, loc[d].pullrequest_id, ok))
       /\ CreateOrUpdateEnds(d, ~ok)

----------------------------------------------------------------------------
(* The delete path (298-324) *)

\* heroku_oauth (302-304)
DeleteOauth(d) ==
  /\ pc[d] = "d_auth"
  /\ UNCHANGED <<probe, apps, openPr, ev, loc>>
  /\ \E ok \in BOOLEAN :
       /\ Log(d, Call("heroku_auth", <<>>, <<>>, 0, ok))
       /\ IF ok
          THEN Goto(d, "d_list") /\ UNCHANGED res
          ELSE Respond(d, DeleteChainStatus(TRUE))

\* heroku.get("/apps") and the search for app_name (306-317)
DeleteList(d) ==
  /\ pc[d] = "d_list"
  /\ UNCHANGED <<probe, apps, openPr, ev>>
  /\ \E ok \in BOOLEAN :
       /\ Log(d, Call("list", <<>>, <<>>, 0, ok))
       /\ IF ok
          THEN LET match == Exists(loc[d].app_name) IN
               /\ loc' = [loc EXCEPT ![d].match = match]
               /\ IF StepAfterDeleteList(match) = "d_delete"
                  THEN Goto(d, "d_delete") /\ UNCHANGED res
                  ELSE Respond(d, DeleteChainStatus(FALSE))
          ELSE /\ UNCHANGED loc
               /\ Respond(d, DeleteChainStatus(TRUE))

\* heroku.delete(`/apps/${app_name}`) (313); an app that is no longer there
\* cannot be deleted.
DeleteApp(d) ==
  /\ pc[d] = "d_delete"
  /\ UNCHANGED <<probe, openPr, ev, loc>>
  /\ \E ok \in {b \in BOOLEAN : b => Exists(loc[d].app_name)} :
       /\ Log(d, Call("delete", loc[d].app_name, <<>>, 0, ok))
       /\ apps' = IF ok THEN [apps EXCEPT ![loc[d].app_name] = @ - 1] ELSE apps
       /\ Respond(d, DeleteChainStatus(~ok))

----------------------------------------------------------------------------
(* The system *)

Init ==
  /\ probe = NoProbe
  /\ apps \in [AppNames -> {0, 1}]
  /\ openPr \in [TrackedBranches -> Ids \cup {0}]
  /\ pc = [d \in Deliveries |-> "idle"]
  /\ ev = [d \in Deliveries |-> NullPullRequest]
  /\ loc = [d \in Deliveries |-> NoLocals]
  /\ calls = [d \in Deliveries |-> <<>>]
  /\ res = [d \in Deliveries |-> <<>>]

Next ==
  \E d \in Deliveries :
    \/ \E pullrequest \in PullRequests \cup {NullPullRequest} :
         Webhook(d, pullrequest)
    \/ GetPullRequestId(d)
    \/ HerokuOauth(d)
    \/ ListApps(d)
    \/ CreateApp(d)
    \/ PatchConfigVars(d)
    \/ StartBuild(d)
    \/ PostComment(d)
    \/ DeleteOauth(d)
    \/ DeleteList(d)
    \/ DeleteApp(d)

Spec == Init /\ [][Next]_vars

----------------------------------------------------------------------------
(* The branch policy applied on its own *)

\* Branch names for the policy functions: tracked names, untracked names, a
\* name that holds "qa-" but does not start with it, and names too short to
\* match.
PolicyBranches ==
  Branches \cup {<<"x", "q", "a", "-">>, <<"q", "a">>, <<"q", "a", "-">>, <<>>}

PolicyInit ==
  /\ probe \in [fn : {"none"}, pr : PullRequests \cup {NullPullRequest},
                source : PolicyBranches, destination : PolicyBranches,
                result : {FALSE}]
  /\ apps = [n \in AppNames |-> 0]
  /\ openPr = [b \in TrackedBranches |-> 0]
  /\ pc = [d \in Deliveries |-> "idle"]
  /\ ev = [d \in Deliveries |-> NullPullRequest]
  /\ loc = [d \in Deliveries |-> NoLocals]
  /\ calls = [d \in Deliveries |-> <<>>]
  /\ res = [d \in Deliveries |-> <<>>]

ApplyIsCreatableOrUpdatable ==
  /\ probe.fn = "none"
  /\ probe' = [probe EXCEPT
                 !.fn = "is_creatable_or_updatable",
                 !.result = is_creatable_or_updatable(probe.pr, probe.source,
                                                      probe.destination)]
  /\ UNCHANGED <<apps, openPr, pc, ev, loc, calls, res>>

ApplyIsMergeableOnQaBranch ==
  /\ probe.fn = "none"
  /\ probe' = [probe EXCEPT
                 !.fn = "is_mergeable_on_qa_branch",
                 !.result = is_mergeable_on_qa_branch(probe.source,
                                                      probe.destination)]
  /\ UNCHANGED <<apps, openPr, pc, ev, loc, calls, res>>

PolicyNext == ApplyIsCreatableOrUpdatable \/ ApplyIsMergeableOnQaBranch

PolicySpec == PolicyInit /\ [][PolicyNext]_vars

----------------------------------------------------------------------------
(* Vocabulary of the properties *)

\* Number of calls of one kind issued by a delivery
Count(d, op) == Cardinality({i \in DOMAIN calls[d] : calls[d][i].op = op})

\* Every provider call the delivery has issued so far succeeded
AllOk(d) == \A i \in DOMAIN calls[d] : calls[d][i].ok

\* The delivery has received the app list
Listed(d) == \E i \in DOMAIN calls[d] : calls[d][i].op = "list" /\ calls[d][i].ok

IsPrefix(s, t) == Len(s) <= Len(t) /\ SubSeq(t, 1, Len(s)) = s

Tracked(branch) == Len(branch) >= 3 /\ SubSeq(branch, 1, 3) = <<"q", "a", "-">>

\* An OPEN event from a tracked branch
OpenTracked(d) ==
  ~ev[d].isNull /\ ev[d].state = "OPEN" /\ Tracked(ev[d].source)

\* An OPEN event from an untracked branch
OpenUntracked(d) ==
  ~ev[d].isNull /\ ev[d].state = "OPEN" /\ ~Tracked(ev[d].source)

\* A MERGED event from an untracked branch into a tracked branch
MergeTarget(d) ==
  /\ ~ev[d].isNull /\ ev[d].state = "MERGED"
  /\ ~Tracked(ev[d].source) /\ Tracked(ev[d].destination)

\* A non-OPEN event that is not actionable
DeleteEvent(d) ==
  ~ev[d].isNull /\ ev[d].state # "OPEN" /\ ~MergeTarget(d)

\* The delivery takes no further step of its own
Stopped(d) == pc[d] \in {"done", "hung"}

HerokuAuthOk == Call("heroku_auth", <<>>, <<>>, 0, TRUE)
ListOk == Call("list", <<>>, <<>>, 0, TRUE)

----------------------------------------------------------------------------
(* C1 *)

CreationSequence(d) ==
  <<HerokuAuthOk, ListOk,
    Call("create", AppName(ev[d].id), <<>>, 0, TRUE),
    Call("patch", AppName(ev[d].id), <<>>, 0, TRUE),
    Call("build", AppName(ev[d].id), ev[d].source, 0, TRUE),
    Call("comment", <<>>, <<>>, ev[d].id, TRUE)>>

\* C1: an OPEN delivery from a tracked branch whose listing shows no app named
\* domain_prefix + id and whose provider calls all succeed issues, in this
\* order and once each, create, config-var patch, build of the source branch
\* and comment on the pull request, and then responds 200.
C1_CreationSequence ==
  \A d \in Deliveries :
    (OpenTracked(d) /\ AllOk(d) /\ Listed(d) /\ ~loc[d].match) =>
      /\ IsPrefix(calls[d], CreationSequence(d))
      /\ pc[d] = "done" => calls[d] = CreationSequence(d) /\ res[d] = <<200>>
      /\ pc[d] # "done" => res[d] = <<>>

C1_Witness ==
  \E d \in Deliveries :
    /\ OpenTracked(d) /\ pc[d] = "done" /\ ~loc[d].match
    /\ calls[d] = CreationSequence(d)
    /\ res[d] = <<200>>

----------------------------------------------------------------------------
(* C2 *)

UpdateSequence(d) ==
  <<HerokuAuthOk, ListOk,
    Call("build", AppName(ev[d].id), ev[d].source, 0, TRUE)>>

\* C2: an OPEN delivery from a tracked branch whose listing shows an app named
\* domain_prefix + id and whose provider calls all succeed issues no create,
\* no config-var patch and no comment, exactly one build, and responds 200.
C2_UpdatePath ==
  \A d \in Deliveries :
    (OpenTracked(d) /\ AllOk(d) /\ Listed(d) /\ loc[d].match) =>
      /\ Count(d, "create") = 0
      /\ Count(d, "patch") = 0
      /\ Count(d, "comment") = 0
      /\ IsPrefix(calls[d], UpdateSequence(d))
      /\ pc[d] = "done" => Count(d, "build") = 1 /\ res[d] = <<200>>

C2_Witness ==
  \E d \in Deliveries :
    /\ OpenTracked(d) /\ AllOk(d) /\ loc[d].match /\ pc[d] = "done"
    /\ Count(d, "build") = 1
    /\ res[d] = <<200>>

----------------------------------------------------------------------------
(* C3 *)

\* C3: a delivery of a non-OPEN event that is not actionable only
\* authenticates, lists and deletes; when its calls succeed it responds 200,
\* having issued exactly one delete, of domain_prefix + the event's id, if the
\* listing showed that app, and no mutation call at all if it did not.
C3_DeletePath ==
  \A d \in Deliveries :
    DeleteEvent(d) =>
      /\ \A i \in DOMAIN calls[d] :
           calls[d][i].op \in {"heroku_auth", "list", "delete"}
      /\ (AllOk(d) /\ pc[d] = "done") =>
           /\ res[d] = <<200>>
           /\ calls[d] = IF loc[d].match
                         THEN <<HerokuAuthOk, ListOk,
                                Call("delete", AppName(ev[d].id), <<>>, 0, TRUE)>>
                         ELSE <<HerokuAuthOk, ListOk>>

C3_Witness ==
  \E d \in Deliveries :
    /\ DeleteEvent(d) /\ ev[d].state = "MERGED" /\ pc[d] = "done"
    /\ AllOk(d) /\ Count(d, "delete") = 1
    /\ res[d] = <<200>>

----------------------------------------------------------------------------
(* C4 *)

\* C4: a delivery of an OPEN event from an untracked branch, whatever its
\* destination, issues no provider call and responds 200.
C4_OpenUntrackedNoop ==
  \A d \in Deliveries :
    OpenUntracked(d) => calls[d] = <<>> /\ res[d] = <<200>>

C4_Witness ==
  \E d \in Deliveries :
    /\ OpenUntracked(d) /\ Tracked(ev[d].destination)
    /\ pc[d] = "done" /\ res[d] = <<200>>

----------------------------------------------------------------------------
(* C5 *)

\* C5 (as claimed): a MERGED delivery from an untracked branch into a tracked
\* branch, when an OPEN pull request R has the destination as its source and
\* the provider calls succeed, ends having triggered exactly one build, of the
\* destination branch for the app domain_prefix + R, with any comment on R, and
\* having responded 200.
C5_MergeTargetRetargets ==
  \A d \in Deliveries :
    (MergeTarget(d) /\ Stopped(d) /\ AllOk(d) /\ openPr[ev[d].destination] # 0) =>
      LET R == openPr[ev[d].destination] IN
      /\ res[d] = <<200>>
      /\ Count(d, "build") = 1
      /\ \A i \in DOMAIN calls[d] :
           /\ calls[d][i].op = "build" =>
                /\ calls[d][i].app = AppName(R)
                /\ calls[d][i].branch = ev[d].destination
           /\ calls[d][i].op = "comment" => calls[d][i].pr = R

----------------------------------------------------------------------------
(* C6 *)

\* C6 (as claimed): a MERGED delivery from an untracked branch into a tracked
\* branch, when no OPEN pull request has the destination as its source and the
\* source-control calls succeed, issues no hosting call and no comment and
\* responds 200.
C6_AbandonedRetarget ==
  \A d \in Deliveries :
    (MergeTarget(d) /\ AllOk(d) /\ openPr[ev[d].destination] = 0) =>
      /\ \A i \in DOMAIN calls[d] :
           calls[d][i].op \in {"bitbucket_token", "search"}
      /\ Stopped(d) => res[d] = <<200>>

----------------------------------------------------------------------------
(* C7 *)

\* C7: is_creatable_or_updatable(pr, s, d) is falsy for a null pr, truthy for
\* state OPEN, for state MERGED truthy exactly when s is untracked and d is
\* tracked, and falsy for every other state.
C7_ActionabilityGate ==
  probe.fn = "is_creatable_or_updatable" =>
    probe.result =
      (CASE probe.pr.isNull -> FALSE
         [] ~probe.pr.isNull /\ probe.pr.state = "OPEN" -> TRUE
         [] ~probe.pr.isNull /\ probe.pr.state = "MERGED" ->
              (~Tracked(probe.source) /\ Tracked(probe.destination))
         [] OTHER -> FALSE)

C7_Witness ==
  /\ probe.fn = "is_creatable_or_updatable"
  /\ ~probe.pr.isNull /\ probe.pr.state = "MERGED"
  /\ Tracked(probe.pr.source) /\ ~Tracked(probe.source)
  /\ probe.result

----------------------------------------------------------------------------
(* C8 *)

\* C8: every build is triggered from a branch that matches the tracked pattern
\* (the source branch of an OPEN event, the destination branch of a
\* merge-target event), and every create is issued by a delivery whose
\* deployable branch matches it.
C8_OnlyTrackedDeployed ==
  \A d \in Deliveries :
    \A i \in DOMAIN calls[d] :
      /\ calls[d][i].op = "build" =>
           /\ Tracked(calls[d][i].branch)
           /\ calls[d][i].branch =
                IF ev[d].state = "OPEN" THEN ev[d].source ELSE ev[d].destination
      /\ calls[d][i].op = "create" => Tracked(loc[d].deployable_branch)

C8_Witness ==
  \E d \in Deliveries :
    /\ Count(d, "create") = 1
    /\ \E i \in DOMAIN calls[d] :
         calls[d][i].op = "build" /\ calls[d][i].branch = QaBranch

----------------------------------------------------------------------------
(* C9 *)

\* C9 (as claimed): a delivery on the create-or-update path one of whose
\* provider calls failed responds 500.
C9_CreateOrUpdateFailure500 ==
  \A d \in Deliveries :
    (OpenTracked(d) /\ pc[d] = "done" /\ ~AllOk(d)) => res[d] = <<500>>

----------------------------------------------------------------------------
(* C10 *)

\* C10: a delivery on the delete path one of whose calls (authentication,
\* listing, delete) failed responds 500, and issues no delete when the
\* authentication or the listing failed.
C10_DeleteFailure500 ==
  \A d \in Deliveries :
    DeleteEvent(d) =>
      /\ (pc[d] = "done" /\ ~AllOk(d)) => res[d] = <<500>>
      /\ (\E i \in DOMAIN calls[d] :
            calls[d][i].op \in {"heroku_auth", "list"} /\ ~calls[d][i].ok)
           => Count(d, "delete") = 0

C10_Witness ==
  \E d \in Deliveries :
    /\ DeleteEvent(d) /\ pc[d] = "done" /\ res[d] = <<500>>
    /\ \E i \in DOMAIN calls[d] : calls[d][i].op = "delete" /\ ~calls[d][i].ok

----------------------------------------------------------------------------
(* C11 *)

\* The delivery has been received and its handler has returned or thrown
Received(d) == pc[d] \in {"done", "threw", "hung"}

\* C11 (as claimed): a delivery whose payload has a null or absent pull
\* request issues no provider call and is answered 400.
C11_RejectNull ==
  \A d \in Deliveries :
    (ev[d].isNull /\ Received(d)) => calls[d] = <<>> /\ res[d] = <<400>>

----------------------------------------------------------------------------
(* C12 *)

\* Calls of one kind issued by two deliveries together
Count2(d, e, op) == Count(d, op) + Count(e, op)

\* No delivery other than d and e has issued a provider call
OnlyThese(d, e) ==
  \A o \in Deliveries \ {d, e} : calls[o] = <<>>

\* e is a second delivery of the event of d, received after d was answered;
\* both are answered, no call of either failed and no other delivery acted.
DeliveredTwice(d, e) ==
  /\ d # e /\ ev[d] = ev[e] /\ OpenTracked(d)
  /\ d \in loc[e].after
  /\ pc[d] = "done" /\ pc[e] = "done"
  /\ AllOk(d) /\ AllOk(e)
  /\ OnlyThese(d, e)

\* C12: the same OPEN event of a tracked branch delivered twice, the second
\* time after the first was answered and with no call failing, leads to one
\* create in all (none if the app existed beforehand) and two builds; the
\* second delivery creates nothing and one app of that name exists afterwards.
C12_SequentialIdempotence ==
  \A d, e \in Deliveries :
    DeliveredTwice(d, e) =>
      /\ Count2(d, e, "create") = IF loc[d].match THEN 0 ELSE 1
      /\ Count2(d, e, "build") = 2
      /\ Count(e, "create") = 0
      /\ loc[e].match
      /\ apps[AppName(ev[d].id)] = 1

C12_Witness ==
  \E d, e \in Deliveries :
    /\ DeliveredTwice(d, e)
    /\ ~loc[d].match
    /\ Count(d, "create") = 1 /\ Count(e, "build") = 1

----------------------------------------------------------------------------
(* C13 *)

\* C13: nothing serializes the deliveries of one app name: a delivery that
\* has observed the name as absent issues its create whatever the other
\* deliveries have done since, also when another delivery has created an app
\* of that name in the meantime.
C13_CreateNotSerialized ==
  \A d \in Deliveries :
    pc[d] = "h_create" => ENABLED CreateApp(d)

\* Two deliveries of an OPEN event for the same id both observed the name as
\* absent and both created it: with no delete issued, the second listing came
\* before the first create, and two apps of the name exist.
C13_Witness ==
  \E d, e \in Deliveries :
    /\ d # e /\ OpenTracked(d) /\ OpenTracked(e) /\ ev[d].id = ev[e].id
    /\ ~loc[d].match /\ ~loc[e].match
    /\ \E i \in DOMAIN calls[d] : calls[d][i].op = "create" /\ calls[d][i].ok
    /\ \E i \in DOMAIN calls[e] : calls[e][i].op = "create" /\ calls[e][i].ok
    /\ loc[d].app_name = loc[e].app_name
    /\ \A o \in Deliveries : Count(o, "delete") = 0
    /\ apps[AppName(ev[d].id)] = 2

----------------------------------------------------------------------------
(* C14 *)

\* Some delivery has deleted an app of that name
DeletedBySomeone(name) ==
  \E o \in Deliveries : \E i \in DOMAIN calls[o] :
    calls[o][i].op = "delete" /\ calls[o][i].app = name /\ calls[o][i].ok

\* The delivery created an app and a later call of it failed
FailedAfterCreate(d) ==
  \E i, j \in DOMAIN calls[d] :
    /\ i < j
    /\ calls[d][i].op = "create" /\ calls[d][i].ok
    /\ ~calls[d][j].ok

\* C14: on the create-or-update path a failed provider call is the last call
\* of its delivery (no later step is issued) and no compensating delete is
\* made: an app the delivery created before the failure stays in the
\* provider's app set unless another delivery deletes it.
C14_AbortWithoutRollback ==
  \A d \in Deliveries :
    OpenTracked(d) =>
      /\ \A i \in DOMAIN calls[d] : ~calls[d][i].ok => i = Len(calls[d])
      /\ ~AllOk(d) => pc[d] \in {"done", "dead"}
      /\ Count(d, "delete") = 0
      /\ (FailedAfterCreate(d) /\ ~DeletedBySomeone(loc[d].app_name)) =>
           apps[loc[d].app_name] >= 1

C14_Witness ==
  \E d \in Deliveries :
    /\ OpenTracked(d) /\ pc[d] = "done"
    /\ Len(calls[d]) = 5
    /\ calls[d][3].op = "create" /\ calls[d][3].ok
    /\ calls[d][5].op = "build" /\ ~calls[d][5].ok
    /\ apps[loc[d].app_name] = 1

----------------------------------------------------------------------------
(* C15 *)

CallKinds ==
  {"bitbucket_token", "search", "heroku_auth", "list", "create", "patch",
   "build", "comment", "delete"}

\* C15 (as claimed): a delivery whose handler has run as far as it ever will
\* (it has answered, or its promise chain can settle no more) has sent exactly
\* one response, with status 200, 400 or 500, and has issued each kind of
\* provider call at most once.
C15_OneTerminalOutcome ==
  \A d \in Deliveries :
    /\ Received(d) => Len(res[d]) = 1 /\ res[d][1] \in {200, 400, 500}
    /\ \A op \in CallKinds : Count(d, op) <= 1

----------------------------------------------------------------------------
(* C16 *)

\* C16: is_mergeable_on_qa_branch(source, destination) is true exactly when
\* the destination matches the pattern and the source does not, whatever pull
\* request accompanies the two names.
C16_MergeTargetPredicate ==
  probe.fn = "is_mergeable_on_qa_branch" =>
    probe.result = (Tracked(probe.destination) /\ ~Tracked(probe.source))

\* True for a source that holds "qa-" without starting with it
C16_Witness ==
  /\ probe.fn = "is_mergeable_on_qa_branch"
  /\ probe.source = <<"x", "q", "a", "-">>
  /\ probe.destination = QaBranch
  /\ probe.result

----------------------------------------------------------------------------
(* C17 *)

\* Some delivery has created an app of that name
CreatedBySystem(name) ==
  \E o \in Deliveries : \E i \in DOMAIN calls[o] :
    calls[o][i].op = "create" /\ calls[o][i].app = name /\ calls[o][i].ok

\* Some delivery has applied the env_vars to the app of that name
PatchedBySystem(name) ==
  \E o \in Deliveries : \E i \in DOMAIN calls[o] :
    calls[o][i].op = "patch" /\ calls[o][i].app = name /\ calls[o][i].ok

\* This step issues a build trigger of delivery d
IssuesBuild(d) ==
  /\ Len(calls'[d]) = Len(calls[d]) + 1
  /\ calls'[d][Len(calls'[d])].op = "build"

\* C17 (as claimed): across the deliveries, whenever a build is triggered for
\* an app this system created, a config-var patch of that app has succeeded
\* before.
C17_EnvVarsBeforeEveryBuild ==
  [][\A d \in Deliveries :
       (IssuesBuild(d) /\ CreatedBySystem(loc[d].app_name)) =>
          PatchedBySystem(loc[d].app_name)]_vars

\* C17 (amended): within one delivery, a build trigger that follows the
\* delivery's own successful create also follows its own successful
\* config-var patch of the same app.
C17_EnvVarsBeforeOwnBuild ==
  \A d \in Deliveries :
    \A i, j \in DOMAIN calls[d] :
      (j < i /\ calls[d][i].op = "build"
             /\ calls[d][j].op = "create" /\ calls[d][j].ok) =>
        \E k \in DOMAIN calls[d] :
          /\ j < k /\ k < i
          /\ calls[d][k].op = "patch" /\ calls[d][k].ok
          /\ calls[d][k].app = calls[d][i].app
          /\ calls[d][k].app = calls[d][j].app

C17_Witness ==
  \E d \in Deliveries :
    /\ Len(calls[d]) >= 5
    /\ calls[d][3].op = "create" /\ calls[d][3].ok
    /\ calls[d][4].op = "patch" /\ calls[d][4].ok
    /\ calls[d][5].op = "build"

----------------------------------------------------------------------------
(* C18 *)

\* C18: a delete is issued only by a delivery of a non-actionable non-OPEN
\* event, at most once, only for domain_prefix + that event's own id, and only
\* after that delivery's own listing showed an app of that name.
C18_DeleteConfined ==
  \A d \in Deliveries :
    /\ Count(d, "delete") <= 1
    /\ \A i \in DOMAIN calls[d] :
         calls[d][i].op = "delete" =>
           /\ DeleteEvent(d)
           /\ calls[d][i].app = AppName(ev[d].id)
           /\ loc[d].match
           /\ \E j \in DOMAIN calls[d] :
                j < i /\ calls[d][j].op = "list" /\ calls[d][j].ok

\* A delete while an app named after another pull request exists, which stays
C18_Witness ==
  \E d \in Deliveries : \E n \in AppNames :
    /\ DeleteEvent(d) /\ pc[d] = "done"
    /\ \E i \in DOMAIN calls[d] : calls[d][i].op = "delete" /\ calls[d][i].ok
    /\ n # AppName(ev[d].id)
    /\ apps[n] = 1
    /\ apps[AppName(ev[d].id)] = 0

----------------------------------------------------------------------------
(* C19 *)

\* The handler of the delivery has returned or thrown and answered
Finished(d) == pc[d] \in {"done", "threw"}

\* Both deliveries were received and neither was answered before the other
\* was received
Overlap(d, e) ==
  /\ d # e
  /\ ~ev[d].isNull /\ ~ev[e].isNull
  /\ d \notin loc[e].after /\ e \notin loc[d].after

\* An OPEN delivery o and a delete-path delivery x for the same id
OpenAndDelete(o, x) ==
  OpenTracked(o) /\ DeleteEvent(x) /\ ev[o].id = ev[x].id

\* C19 (as claimed): when an OPEN delivery and a delete-path delivery for the
\* same id overlap, once the latter has responded 200 and every delivery that
\* overlapped it has finished, no app named domain_prefix + id exists.
C19_TeardownSurvivesOverlap ==
  \A o, x \in Deliveries :
    ( /\ OpenAndDelete(o, x) /\ Overlap(o, x)
      /\ pc[x] = "done" /\ res[x] = <<200>>
      /\ \A e \in Deliveries : Overlap(e, x) => Finished(e) )
    => apps[AppName(ev[x].id)] = 0

\* C19 (amended): when the delete-path delivery is received after the OPEN
\* delivery for the same id was answered and no other delivery acts, once it
\* has responded 200 no app named domain_prefix + id exists, and it has
\* triggered no build.
C19_TeardownAfterOpen ==
  \A o, x \in Deliveries :
    ( /\ OpenAndDelete(o, x)
      /\ o \in loc[x].after
      /\ pc[x] = "done" /\ res[x] = <<200>>
      /\ OnlyThese(o, x) )
    => /\ apps[AppName(ev[x].id)] = 0
       /\ Count(x, "build") = 0

C19_Witness ==
  \E o, x \in Deliveries :
    /\ OpenAndDelete(o, x) /\ o \in loc[x].after
    /\ pc[x] = "done" /\ res[x] = <<200>>
    /\ \E i \in DOMAIN calls[o] : calls[o][i].op = "create" /\ calls[o][i].ok
    /\ \E i \in DOMAIN calls[x] : calls[x][i].op = "delete" /\ calls[x][i].ok
    /\ apps[AppName(ev[x].id)] = 0

============================================================================
